---- MODULE Spec2Model ----
(***************************************************************************)
(* Model of the Document Handler API (src/app.py): the type sniffer        *)
(* detect_file_type, the /process-document handler, save_temp_file and     *)
(* the /cleanup handler.                                                    *)
(*                                                                         *)
(* Representation.  A Python str is a TLA+ string; a Python bytes object   *)
(* is a sequence of integers 0..255; the text produced by bytes.decode is  *)
(* a sequence of code points.  A confidence score is kept in hundredths    *)
(* (0.95 is 95), so the interval [0,1] is 0..100.  base64.b64decode is     *)
(* modelled as CPython 3.11 computes it (binascii.a2b_base64, whose strict *)
(* mode is what validate=True selects).  Input strings are ASCII.          *)
(***************************************************************************)
EXTENDS Integers, Sequences, FiniteSets, TLC

(***************************************************************************)
(* Bounds of the model.                                                    *)
(***************************************************************************)
\* every sample buffer is also submitted with 1..MaxFill filler bytes appended
MaxFill == 2
\* at most this many files are written by the model before requests stop
MaxFiles == 1

(***************************************************************************)
(* str / bytes primitives                                                   *)
(***************************************************************************)
\* str.startswith / bytes.startswith
StartsWith(s, p) == Len(s) >= Len(p) /\ SubSeq(s, 1, Len(p)) = p

CharAt(s, i) == SubSeq(s, i, i)

\* str.find(c) for a one-character c: least 1-based index, 0 when absent
RECURSIVE FindFrom(_, _, _)
FindFrom(s, c, i) ==
    IF i > Len(s) THEN 0
    ELSE IF CharAt(s, i) = c THEN i
    ELSE FindFrom(s, c, i + 1)

Find(s, c) == FindFrom(s, c, 1)

\* str.rfind(c): greatest 1-based index, 0 when absent
RECURSIVE RFindFrom(_, _, _)
RFindFrom(s, c, i) ==
    IF i < 1 THEN 0
    ELSE IF CharAt(s, i) = c THEN i
    ELSE RFindFrom(s, c, i - 1)

RFind(s, c) == RFindFrom(s, c, Len(s))

\* s.split(c): the list of fields
RECURSIVE Split(_, _)
Split(s, c) ==
    LET k == Find(s, c) IN
    IF k = 0 THEN <<s>>
    ELSE <<SubSeq(s, 1, k - 1)>> \o Split(SubSeq(s, k + 1, Len(s)), c)

\* s.split(c, 1): at most two fields
Split1(s, c) ==
    LET k == Find(s, c) IN
    IF k = 0 THEN <<s>>
    ELSE <<SubSeq(s, 1, k - 1), SubSeq(s, k + 1, Len(s))>>

(***************************************************************************)
(* base64                                                                   *)
(***************************************************************************)
B64Alphabet == "ABCDEFGHIJKLMNOPQRSTUVWXYZabcdefghijklmnopqrstuvwxyz0123456789+/"

B64Pad == "="

B64Chars == {CharAt(B64Alphabet, i) : i \in 1..64}

\* table_a2b_base64: the sextet of an alphabet character
table_a2b_base64 ==
    [c \in B64Chars |-> (CHOOSE i \in 1..64 : CharAt(B64Alphabet, i) = c) - 1]

\* The scan of binascii.a2b_base64.  acc holds the sextets accepted so far,
\* so the scanner's quad_pos is Len(acc) % 4; pads and padding_started are
\* its variables of the same names.  Characters outside the alphabet are
\* skipped, a complete pad sequence ends the scan, and the scan fails
\* (binascii.Error) when it ends inside a quad.  In strict mode it also
\* fails on a character outside the alphabet, on data after a pad, and on
\* anything after a complete pad sequence.
RECURSIVE a2b_scan(_, _, _, _, _, _)
a2b_scan(s, strict_mode, i, acc, pads, padding_started) ==
    LET quad_pos == Len(acc) % 4
        c == CharAt(s, i)
    IN  IF i > Len(s)
        THEN [ok |-> quad_pos = 0, q |-> acc]
        ELSE IF c = B64Pad
        THEN IF quad_pos >= 2 /\ quad_pos + pads + 1 >= 4
             THEN [ok |-> ~(strict_mode /\ i < Len(s)), q |-> acc]
             ELSE a2b_scan(s, strict_mode, i + 1, acc,
                           IF quad_pos >= 2 THEN pads + 1 ELSE pads, TRUE)
        ELSE IF c \notin B64Chars
        THEN IF strict_mode THEN [ok |-> FALSE, q |-> acc]
             ELSE a2b_scan(s, strict_mode, i + 1, acc, pads, padding_started)
        ELSE IF strict_mode /\ padding_started THEN [ok |-> FALSE, q |-> acc]
        ELSE a2b_scan(s, strict_mode, i + 1,
                      Append(acc, table_a2b_base64[c]), 0, padding_started)

\* the bytes carried by a sequence of sextets: floor(6 * n / 8) of them
RECURSIVE SextetsToBytes(_)
SextetsToBytes(q) ==
    IF Len(q) < 2 THEN <<>>
    ELSE LET b1 == q[1] * 4 + q[2] \div 16 IN
         IF Len(q) = 2 THEN <<b1>>
         ELSE LET b2 == (q[2] % 16) * 16 + q[3] \div 4 IN
              IF Len(q) = 3 THEN <<b1, b2>>
              ELSE <<b1, b2, (q[3] % 4) * 64 + q[4]>>
                   \o SextetsToBytes(SubSeq(q, 5, Len(q)))

\* a failed call: the exception replaces the value
Raised == [ok |-> FALSE, bytes |-> <<>>]

\* binascii.a2b_base64(s, strict_mode): the bytes, or Raised for
\* binascii.Error; strict mode refuses a leading pad before it scans
a2b_base64(s, strict_mode) ==
    LET r == a2b_scan(s, strict_mode, 1, <<>>, 0, FALSE) IN
    IF strict_mode /\ StartsWith(s, B64Pad) THEN Raised
    ELSE IF r.ok THEN [ok |-> TRUE, bytes |-> SextetsToBytes(r.q)]
    ELSE Raised

\* base64.b64decode(s, validate=validate): the bytes, or Raised
b64decode(s, validate) == a2b_base64(s, validate)

\* base64.b64encode, used to build the sample requests
RECURSIVE b64encode(_)
b64encode(b) ==
    LET ch(v) == CharAt(B64Alphabet, v + 1) IN
    IF Len(b) = 0 THEN ""
    ELSE IF Len(b) = 1
    THEN ch(b[1] \div 4) \o ch((b[1] % 4) * 16) \o "=="
    ELSE IF Len(b) = 2
    THEN ch(b[1] \div 4) \o ch((b[1] % 4) * 16 + b[2] \div 16)
         \o ch((b[2] % 16) * 4) \o "="
    ELSE ch(b[1] \div 4) \o ch((b[1] % 4) * 16 + b[2] \div 16)
         \o ch((b[2] % 16) * 4 + b[3] \div 64) \o ch(b[3] % 64)
         \o b64encode(SubSeq(b, 4, Len(b)))

(***************************************************************************)
(* bytes.decode('utf-8', errors='ignore')                                   *)
(***************************************************************************)
IsContinuation(x) == x >= 128 /\ x <= 191

\* length of the UTF-8 sequence a lead byte announces, 0 for an invalid lead
Utf8Need(lead) ==
    IF lead < 128 THEN 1
    ELSE IF lead >= 194 /\ lead <= 223 THEN 2
    ELSE IF lead >= 224 /\ lead <= 239 THEN 3
    ELSE IF lead >= 240 /\ lead <= 244 THEN 4
    ELSE 0

\* the j-th byte (j >= 2) of a sequence is acceptable after this lead
Utf8ContOk(lead, j, x) ==
    /\ IsContinuation(x)
    /\ j = 2 /\ lead = 224 => x >= 160
    /\ j = 2 /\ lead = 237 => x < 160
    /\ j = 2 /\ lead = 240 => x >= 144
    /\ j = 2 /\ lead = 244 => x < 144

\* number of bytes from position i that form a valid start of a sequence
RECURSIVE Utf8ValidRun(_, _, _, _)
Utf8ValidRun(b, i, need, j) ==
    IF j > need \/ i + j - 1 > Len(b) THEN j - 1
    ELSE IF Utf8ContOk(b[i], j, b[i + j - 1])
    THEN Utf8ValidRun(b, i, need, j + 1)
    ELSE j - 1

Utf8CodePoint(b, i, need) ==
    IF need = 1 THEN b[i]
    ELSE IF need = 2 THEN (b[i] - 192) * 64 + (b[i + 1] - 128)
    ELSE IF need = 3
    THEN (b[i] - 224) * 4096 + (b[i + 1] - 128) * 64 + (b[i + 2] - 128)
    ELSE (b[i] - 240) * 262144 + (b[i + 1] - 128) * 4096
         + (b[i + 2] - 128) * 64 + (b[i + 3] - 128)

\* the code points of b from position i on; undecodable bytes are dropped
RECURSIVE Utf8IgnoreFrom(_, _)
Utf8IgnoreFrom(b, i) ==
    IF i > Len(b) THEN <<>>
    ELSE LET need == Utf8Need(b[i])
             run == IF need = 0 THEN 0 ELSE Utf8ValidRun(b, i, need, 2)
         IN  IF need = 0 THEN Utf8IgnoreFrom(b, i + 1)
             ELSE IF run = need
             THEN <<Utf8CodePoint(b, i, need)>> \o Utf8IgnoreFrom(b, i + need)
             ELSE IF i + run > Len(b) THEN <<>>
             ELSE Utf8IgnoreFrom(b, i + run)

Utf8Ignore(b) == Utf8IgnoreFrom(b, 1)

(***************************************************************************)
(* detect_file_type                                                         *)
(***************************************************************************)
Min(a, b) == IF a <= b THEN a ELSE b

DocxMime == "application/vnd.openxmlformats-officedocument.wordprocessingml.document"

\* the entries of the file_signatures dict display, in the order written
\* ('P' is 0x50 and 'K' is 0x4b: the last three keys repeat the three
\* before them)
file_signatures_display ==
    << [sig |-> <<137, 80, 78, 71, 13, 10, 26, 10>>, mime |-> "image/png", ext |-> "png"],
       [sig |-> <<255, 216, 255>>, mime |-> "image/jpeg", ext |-> "jpg"],
       [sig |-> <<71, 73, 70, 56, 55, 97>>, mime |-> "image/gif", ext |-> "gif"],
       [sig |-> <<71, 73, 70, 56, 57, 97>>, mime |-> "image/gif", ext |-> "gif"],
       [sig |-> <<37, 80, 68, 70>>, mime |-> "application/pdf", ext |-> "pdf"],
       [sig |-> <<80, 75, 3, 4>>, mime |-> "application/zip", ext |-> "zip"],
       [sig |-> <<80, 75, 5, 6>>, mime |-> "application/zip", ext |-> "zip"],
       [sig |-> <<80, 75, 7, 8>>, mime |-> "application/zip", ext |-> "zip"],
       [sig |-> <<80, 75, 3, 4>>, mime |-> DocxMime, ext |-> "docx"],
       [sig |-> <<80, 75, 5, 6>>, mime |-> DocxMime, ext |-> "docx"],
       [sig |-> <<80, 75, 7, 8>>, mime |-> DocxMime, ext |-> "docx"] >>

\* a dict display read with a repeated key keeping its first value
DictStoreFirstWins(items, e, j) ==
    IF \E k \in 1..Len(items) : items[k].sig = e.sig THEN items
    ELSE Append(items, e)

\* a dict display: a repeated key keeps the position of its first
\* occurrence and takes the value of its last
RECURSIVE DictStore(_, _, _)
DictStore(items, e, j) ==
    IF j > Len(items) THEN Append(items, e)
    ELSE IF items[j].sig = e.sig THEN [items EXCEPT ![j] = e]
    ELSE DictStore(items, e, j + 1)

RECURSIVE DictDisplay(_, _)
DictDisplay(display, items) ==
    IF Len(display) = 0 THEN items
    ELSE DictDisplay(Tail(display), DictStore(items, Head(display), 1))

\* file_signatures.items()
file_signatures == DictDisplay(file_signatures_display, <<>>)

\* the result pair (mime_type, file_extension)
Pair(m, e) == [mime |-> m, ext |-> e]

OctetStream == Pair("application/octet-stream", "bin")

NoMatch == [found |-> FALSE, type |-> OctetStream]

Match(t) == [found |-> TRUE, type |-> t]

\* lines 47-55: the data-URL header; no match when the unpacking of
\* split(',', 1) raises (the bare except swallows it)
DataUrlType(base64_data) ==
    IF ~StartsWith(base64_data, "data:") THEN NoMatch
    ELSE LET parts == Split1(base64_data, ",") IN
         IF Len(parts) # 2 THEN NoMatch
         ELSE LET header == parts[1]
                  mime_type == Split(Split(header, ":")[2], ";")[1]
                  fields == Split(mime_type, "/")
              IN  Match(Pair(mime_type,
                             IF Find(mime_type, "/") # 0
                             THEN fields[Len(fields)] ELSE "bin"))

\* lines 72-75: the first item of the dict whose key the data starts with
RECURSIVE SignatureType(_, _)
SignatureType(decoded_data, j) ==
    IF j > Len(file_signatures) THEN NoMatch
    ELSE IF StartsWith(decoded_data, file_signatures[j].sig)
    THEN Match(Pair(file_signatures[j].mime, file_signatures[j].ext))
    ELSE SignatureType(decoded_data, j + 1)

MinTextLen == 4

TextWindow == 100

\* the slice read byte for byte, without dropping undecodable bytes
TextStartStrict(decoded_data) ==
    SubSeq(decoded_data, 1, Min(TextWindow, Len(decoded_data)))

\* decoded_data[:100].decode('utf-8', errors='ignore')
TextStart(decoded_data) ==
    Utf8Ignore(SubSeq(decoded_data, 1, Min(TextWindow, Len(decoded_data))))

\* lines 78-98: the text prefixes, in the order of the if/elif chain
TextType(decoded_data) ==
    IF Len(decoded_data) < MinTextLen THEN NoMatch
    ELSE LET text_start == TextStart(decoded_data) IN
         IF StartsWith(text_start, <<60, 63, 120, 109, 108>>)
         THEN Match(Pair("application/xml", "xml"))
         ELSE IF StartsWith(text_start, <<123>>) \/ StartsWith(text_start, <<91>>)
         THEN Match(Pair("application/json", "json"))
         ELSE IF \/ StartsWith(text_start, <<60, 104, 116, 109, 108>>)
                 \/ StartsWith(text_start, <<60, 33, 68, 79, 67, 84, 89, 80, 69>>)
         THEN Match(Pair("text/html", "html"))
         ELSE IF StartsWith(text_start, <<60, 63, 112, 104, 112>>)
         THEN Match(Pair("application/x-httpd-php", "php"))
         ELSE IF StartsWith(text_start, <<35, 33, 47>>)
         THEN Match(Pair("text/plain", "txt"))
         ELSE NoMatch

\* detect_file_type(base64_data): b64decode without validate comes first,
\* and the outer except turns its failure into the generic type
detect_file_type(base64_data) ==
    LET dec == b64decode(base64_data, FALSE)
        url == DataUrlType(base64_data)
        sign == SignatureType(dec.bytes, 1)
        text == TextType(dec.bytes)
    IN  IF ~dec.ok THEN OctetStream
        ELSE IF url.found THEN url.type
        ELSE IF sign.found THEN sign.type
        ELSE IF text.found THEN text.type
        ELSE OctetStream

(***************************************************************************)
(* The requests the model submits                                           *)
(***************************************************************************)
\* leading bytes of the documents: every signature, every text prefix,
\* near misses of both, and bytes that are not UTF-8
SampleBuffers ==
    { <<137, 80, 78, 71, 13, 10, 26, 10>>,          \* PNG
      <<137, 80, 78, 71, 13, 10, 26>>,              \* PNG cut short
      <<255, 216, 255, 224>>,                       \* JPEG
      <<71, 73, 70, 56, 55, 97>>,                   \* GIF87a
      <<71, 73, 70, 56, 57, 97>>,                   \* GIF89a
      <<71, 73, 70, 56, 56, 97>>,                   \* GIF88a
      <<37, 80, 68, 70>>,                           \* %PDF
      <<37, 80, 68, 70, 123, 34, 97>>,              \* %PDF{"a
      <<37, 80, 68>>,                               \* %PD
      <<80, 75, 3, 4>>, <<80, 75, 5, 6>>, <<80, 75, 7, 8>>,
      <<80, 75, 1, 2>>,                             \* PK\x01\x02
      <<60, 63, 120, 109, 108>>,                    \* <?xml
      <<60, 63, 120>>,                              \* <?x
      <<123, 97>>,                                  \* {a
      <<91, 49>>,                                   \* [1
      <<60, 104, 116, 109, 108>>,                   \* <html
      <<60, 72, 84, 77, 76>>,                       \* <HTML
      <<60, 33, 68, 79, 67, 84, 89, 80, 69>>,       \* <!DOCTYPE
      <<60, 63, 112, 104, 112>>,                    \* <?php
      <<35, 33, 47>>,                               \* #!/
      <<32, 123, 97>>,                              \* space {a
      <<128, 123, 97>>,                             \* stray continuation, {a
      <<226, 130, 123, 97, 98>>,                    \* cut three-byte char, {ab
      <<195, 169, 123, 97>>,                        \* e-acute, {a
      <<0, 1, 2, 3>>,
      <<>> }

\* k filler bytes (spaces)
RECURSIVE Fill(_)
Fill(k) == IF k = 0 THEN <<>> ELSE <<32>> \o Fill(k - 1)

Payloads == {b64encode(b \o Fill(k)) : b \in SampleBuffers, k \in 0..MaxFill}

\* MIME types declared in a data-URL prefix
DeclaredMimes == {"image/png", "image/jpeg", "text/csv", ""}

DataUrl(mime, payload) == "data:" \o mime \o ";base64," \o payload

\* strings that are not base64, or not a data URL with a payload
Malformed ==
    { "data:abc", "data:", "data:image/png;base64", "data:text/plain,e2E=",
      "!!!!", "AAA", "AAAAA", "=AAA", "AA=A", "e2FiYw", "e2Fi Yw==",
      "AAAA===", "data:image/jpeg;base64,e2Fi,Yw==",
      "data:image/;base64,e2FiYw==", "data:binary;base64,e2FiYw==",
      "data:application/pdf;base64,ew==", "data:a:b;base64,e2E=" }

RawInputs ==
    Payloads \cup {DataUrl(m, p) : m \in DeclaredMimes, p \in Payloads}
             \cup Malformed

RecordIds == {"7"}

DocumentIds == {"42"}

(***************************************************************************)
(* Classification (process_document, lines 170-201)                        *)
(***************************************************************************)
Entry(score, text) == [confidence_score |-> score, reason |-> text]

\* accepted_types; a score is in hundredths
accepted_types ==
    [m \in {"application/pdf", "image/jpeg", "image/png", "image/gif", DocxMime,
            "application/msword",
            "application/vnd.openxmlformats-officedocument.spreadsheetml.sheet",
            "application/vnd.ms-excel",
            "application/vnd.openxmlformats-officedocument.presentationml.presentation",
            "application/vnd.ms-powerpoint",
            "text/plain", "application/json", "application/xml", "text/html",
            "text/csv"} |->
        CASE m = "application/pdf" -> Entry(95, "PDF document - Accepted")
          [] m = "image/jpeg" -> Entry(85, "JPEG image - Accepted")
          [] m = "image/png" -> Entry(85, "PNG image - Accepted")
          [] m = "image/gif" -> Entry(80, "GIF image - Accepted")
          [] m = DocxMime -> Entry(90, "DOCX document - Accepted")
          [] m = "application/msword" -> Entry(85, "DOC document - Accepted")
          [] m = "application/vnd.openxmlformats-officedocument.spreadsheetml.sheet"
               -> Entry(90, "XLSX spreadsheet - Accepted")
          [] m = "application/vnd.ms-excel" -> Entry(85, "XLS spreadsheet - Accepted")
          [] m = "application/vnd.openxmlformats-officedocument.presentationml.presentation"
               -> Entry(90, "PPTX presentation - Accepted")
          [] m = "application/vnd.ms-powerpoint" -> Entry(85, "PPT presentation - Accepted")
          [] m = "text/plain" -> Entry(70, "Text file - Accepted")
          [] m = "application/json" -> Entry(75, "JSON file - Accepted")
          [] m = "application/xml" -> Entry(75, "XML file - Accepted")
          [] m = "text/html" -> Entry(70, "HTML file - Accepted")
          [] m = "text/csv" -> Entry(75, "CSV file - Accepted")]

Verdict(st, score, text) ==
    [status |-> st, confidence_score |-> score, reason |-> text]

RejectedScore == 30

\* lines 171-173 followed by a lookup that forgets the else branch's score
classify_keeps_initial_score(mime) ==
    IF mime \in DOMAIN accepted_types
    THEN Verdict("accepted", accepted_types[mime].confidence_score,
                 accepted_types[mime].reason)
    ELSE Verdict("rejected", 0,
                 "File type '" \o mime \o "' not in accepted list - Rejected")

\* lines 171-201: status, confidence_score and reason for a MIME type
classify(mime) ==
    IF mime \in DOMAIN accepted_types
    THEN Verdict("accepted", accepted_types[mime].confidence_score,
                 accepted_types[mime].reason)
    ELSE Verdict("rejected", RejectedScore,
                 "File type '" \o mime \o "' not in accepted list - Rejected")

(***************************************************************************)
(* Files                                                                    *)
(***************************************************************************)
Cwd == "/app"

\* os.path.join(os.getcwd(), "temp_files")
temp_dir == Cwd \o "/" \o "temp_files"

\* datetime.now().strftime(...) and str(uuid.uuid4())[:8] of one request
Timestamps == {"20240101_000000"}

UniqueIds == {"1a2b3c4d"}

\* lines 116-124: the path save_temp_file writes to
temp_file_name(record_id, document_id, timestamp, unique_id, file_extension) ==
    temp_dir \o "/" \o "record_" \o record_id \o "_doc_" \o document_id \o "_"
             \o timestamp \o "_" \o unique_id \o "." \o file_extension

\* str.rstrip('/')
RECURSIVE RStripSlash(_)
RStripSlash(s) ==
    IF Len(s) > 0 /\ CharAt(s, Len(s)) = "/"
    THEN RStripSlash(SubSeq(s, 1, Len(s) - 1)) ELSE s

\* posixpath.dirname
dirname(path) ==
    LET head == SubSeq(path, 1, RFind(path, "/")) IN
    IF RStripSlash(head) # "" THEN RStripSlash(head) ELSE head

\* the absolute path a path names, relative paths counted from the cwd
AbsPath(path) == IF StartsWith(path, "/") THEN path ELSE Cwd \o "/" \o path

(***************************************************************************)
(* State                                                                    *)
(***************************************************************************)
VARIABLES
    pc,               \* where the process_document call stands
    request,          \* the DocumentRequest being served
    base64_data,      \* local of process_document (line 150-152)
    decoded_data,     \* local of process_document (line 156)
    detected,         \* (mime_type, file_extension) of line 168, or of a direct call
    verdict,          \* status, confidence_score, reason (lines 171-201)
    temp_file_path,   \* local of process_document (line 204)
    response,         \* what the call in progress answered
    calls,            \* the functions this call has invoked so far, in order
    saves,            \* the arguments of this call's save_temp_file calls
    files,            \* the paths that exist on disk
    cleanup_response  \* what the last cleanup_temp_file call answered

vars == <<pc, request, base64_data, decoded_data, detected, verdict,
          temp_file_path, response, calls, saves, files, cleanup_response>>

NoRequest == [record_id |-> "", document_id |-> "", base64_data |-> ""]

NoType == Pair("", "")

NoVerdict == Verdict("", 0, "")

\* an HTTP answer: a body on success, a detail on error; code 0 is no answer yet
NoResponse == [code |-> 0, body |-> <<>>, detail |-> ""]

HttpOk(b) == [code |-> 200, body |-> <<b>>, detail |-> ""]

HttpError(status_code, text) == [code |-> status_code, body |-> <<>>, detail |-> text]

\* an exception in flight
HTTPException(status_code, text) ==
    [kind |-> "HTTPException", status_code |-> status_code, detail |-> text]

Exception(kind, text) == [kind |-> kind, status_code |-> 0, detail |-> text]

\* files that exist outside the temp directory
OtherFiles == {Cwd \o "/app.py"}

\* the files of the temp directory
TempFiles(fs) == {f \in fs : dirname(f) = temp_dir}

\* a handler that turns every exception into a 500
process_document_except_all(exc) ==
    HttpError(500, "Internal server error: " \o exc.detail)

\* lines 231-235: an HTTPException passes through, anything else becomes a 500
process_document_except(exc) ==
    IF exc.kind = "HTTPException" THEN HttpError(exc.status_code, exc.detail)
    ELSE HttpError(500, "Internal server error: " \o exc.detail)

Init ==
    /\ pc = "idle"
    /\ request = NoRequest
    /\ base64_data = ""
    /\ decoded_data = <<>>
    /\ detected = NoType
    /\ verdict = NoVerdict
    /\ temp_file_path = ""
    /\ response = NoResponse
    /\ calls = <<>>
    /\ saves = <<>>
    /\ files = OtherFiles
    /\ cleanup_response = NoResponse

(***************************************************************************)
(* POST /process-document                                                   *)
(***************************************************************************)
\* a request arrives and process_document starts on it; the handlers are
\* coroutines that never await, so the event loop runs one call at a time
Receive ==
    /\ pc = "idle"
    /\ Cardinality(TempFiles(files)) < MaxFiles
    /\ \E raw \in RawInputs, rid \in RecordIds, did \in DocumentIds :
           request' = [record_id |-> rid, document_id |-> did, base64_data |-> raw]
    /\ pc' = "validate"
    /\ base64_data' = ""
    /\ decoded_data' = <<>>
    /\ detected' = NoType
    /\ verdict' = NoVerdict
    /\ temp_file_path' = ""
    /\ response' = NoResponse
    /\ calls' = <<>>
    /\ saves' = <<>>
    /\ cleanup_response' = NoResponse
    /\ UNCHANGED files

\* the call ends with an exception, which the handlers of lines 231-235 answer
Raise(exc) ==
    /\ pc' = "done"
    /\ response' = process_document_except(exc)

\* lines 150-163: strip the data-URL prefix, decode with validate=True,
\* refuse an empty document
Validate ==
    /\ pc = "validate"
    /\ LET raw == request.base64_data
           parts == Split1(raw, ",")
           indexError == StartsWith(raw, "data:") /\ Len(parts) < 2
           stripped == IF StartsWith(raw, "data:") /\ ~indexError
                       THEN parts[2] ELSE raw
           dec == b64decode(stripped, TRUE)
       IN  IF indexError
           THEN /\ Raise(Exception("IndexError", "list index out of range"))
                /\ UNCHANGED <<base64_data, decoded_data, calls>>
           ELSE /\ base64_data' = stripped
                /\ calls' = Append(calls, "b64decode")
                /\ IF ~dec.ok
                   THEN /\ Raise(HTTPException(400, "Invalid base64 data"))
                        /\ UNCHANGED decoded_data
                   ELSE /\ decoded_data' = dec.bytes
                        /\ IF Len(dec.bytes) = 0
                           THEN Raise(HTTPException(400, "Empty file data"))
                           ELSE pc' = "detect" /\ UNCHANGED response
    /\ UNCHANGED <<request, detected, verdict, temp_file_path, saves, files,
                   cleanup_response>>

\* line 168 with the request's own string handed to the sniffer
sniff_original(original, stripped) == detect_file_type(original)

\* line 168: the sniffer is handed the local base64_data
sniff(original, stripped) == detect_file_type(stripped)

\* line 168
Detect ==
    /\ pc = "detect"
    /\ detected' = sniff(request.base64_data, base64_data)
    /\ calls' = Append(calls, "detect_file_type")
    /\ pc' = "classify"
    /\ UNCHANGED <<request, base64_data, decoded_data, verdict, temp_file_path,
                   response, saves, files, cleanup_response>>

\* lines 170-201
Classify ==
    /\ pc = "classify"
    /\ verdict' = classify(detected.mime)
    /\ pc' = "save"
    /\ UNCHANGED <<request, base64_data, decoded_data, detected, temp_file_path,
                   response, calls, saves, files, cleanup_response>>

\* what a save_temp_file call was given, and the verdict standing at the call
SaveArgs == [decoded_data |-> decoded_data, file_extension |-> detected.ext,
             verdict |-> verdict]

\* lines 203-209 saving accepted documents only
SaveAcceptedOnly ==
    /\ pc = "save"
    /\ IF verdict.status = "accepted"
       THEN \E ts \in Timestamps, uid \in UniqueIds :
              LET path == temp_file_name(request.record_id, request.document_id,
                                         ts, uid, detected.ext)
              IN  /\ calls' = Append(calls, "save_temp_file")
                  /\ saves' = Append(saves, SaveArgs)
                  /\ files' = files \cup {path}
                  /\ temp_file_path' = path
       ELSE UNCHANGED <<calls, saves, files, temp_file_path>>
    /\ pc' = "respond"
    /\ UNCHANGED <<request, base64_data, decoded_data, detected, verdict,
                   response, cleanup_response>>

\* lines 203-209 and save_temp_file (109-133): the file is written and its
\* path returned, or makedirs/open/write raises OSError (with the file
\* created or not) and the call ends in the handlers of lines 231-235
Save ==
    /\ pc = "save"
    /\ calls' = Append(calls, "save_temp_file")
    /\ saves' = Append(saves, SaveArgs)
    /\ \E ts \in Timestamps, uid \in UniqueIds :
         LET path == temp_file_name(request.record_id, request.document_id,
                                    ts, uid, detected.ext)
         IN  \/ /\ files' = files \cup {path}
                /\ temp_file_path' = path
                /\ pc' = "respond"
                /\ UNCHANGED response
             \/ /\ files' \in {files, files \cup {path}}
                /\ Raise(Exception("OSError", "[Errno 28] No space left on device"))
                /\ UNCHANGED temp_file_path
    /\ UNCHANGED <<request, base64_data, decoded_data, detected, verdict,
                   cleanup_response>>

\* lines 211-229: the DocumentResponse
Respond ==
    /\ pc = "respond"
    /\ response' = HttpOk([record_id |-> request.record_id,
                           document_id |-> request.document_id,
                           status |-> verdict.status,
                           confidence_score |-> verdict.confidence_score,
                           reason |-> verdict.reason])
    /\ pc' = "done"
    /\ UNCHANGED <<request, base64_data, decoded_data, detected, verdict,
                   temp_file_path, calls, saves, files, cleanup_response>>

\* the answer has been sent and the call's frame is gone
Return ==
    /\ pc = "done"
    /\ pc' = "idle"
    /\ request' = NoRequest
    /\ base64_data' = ""
    /\ decoded_data' = <<>>
    /\ detected' = NoType
    /\ verdict' = NoVerdict
    /\ temp_file_path' = ""
    /\ response' = NoResponse
    /\ calls' = <<>>
    /\ saves' = <<>>
    /\ UNCHANGED <<files, cleanup_response>>

(***************************************************************************)
(* DELETE /cleanup/{file_path}                                              *)
(***************************************************************************)
\* str(exc)
ExcStr(exc) ==
    IF exc.kind = "HTTPException"
    THEN ToString(exc.status_code) \o ": " \o exc.detail
    ELSE exc.detail

\* lines 254-255: except Exception, which an HTTPException is too
cleanup_except(exc) == HttpError(500, "Error deleting file: " \o ExcStr(exc))

\* the path of a file as a client would write it relative to the cwd
RelPath(f) == SubSeq(f, Len(Cwd) + 2, Len(f))

\* the paths the model asks to clean up
CleanupPaths ==
    files \cup {RelPath(f) : f \in files}
          \cup {temp_dir \o "/missing.bin", temp_dir \o "/sub/missing.bin", ""}

\* lines 247-255
cleanup_temp_file(file_path) ==
    /\ pc = "idle"
    /\ IF AbsPath(file_path) \in files /\ dirname(file_path) = temp_dir
       THEN \/ /\ files' = files \ {AbsPath(file_path)}
               /\ cleanup_response' =
                      HttpOk([message |-> "File deleted successfully",
                              file_path |-> file_path])
            \/ /\ cleanup_response' =
                      cleanup_except(Exception("OSError", "[Errno 13] Permission denied"))
               /\ UNCHANGED files
       ELSE /\ cleanup_response' =
                   cleanup_except(HTTPException(404, "File not found or invalid path"))
            /\ UNCHANGED files
    /\ UNCHANGED <<pc, request, base64_data, decoded_data, detected, verdict,
                   temp_file_path, response, calls, saves>>

Cleanup == \E file_path \in CleanupPaths : cleanup_temp_file(file_path)

Next ==
    \/ Receive
    \/ Validate
    \/ Detect
    \/ Classify
    \/ Save
    \/ Respond
    \/ Return
    \/ Cleanup

Spec == Init /\ [][Next]_vars

(***************************************************************************)
(* detect_file_type called on its own, on every sample string               *)
(***************************************************************************)
InitDetect ==
    /\ pc = "call"
    /\ request \in {[record_id |-> "", document_id |-> "", base64_data |-> raw] :
                       raw \in RawInputs}
    /\ base64_data = ""
    /\ decoded_data = <<>>
    /\ detected = NoType
    /\ verdict = NoVerdict
    /\ temp_file_path = ""
    /\ response = NoResponse
    /\ calls = <<>>
    /\ saves = <<>>
    /\ files = OtherFiles
    /\ cleanup_response = NoResponse

DetectCall ==
    /\ pc = "call"
    /\ detected' = detect_file_type(request.base64_data)
    /\ calls' = Append(calls, "detect_file_type")
    /\ pc' = "returned"
    /\ UNCHANGED <<request, base64_data, decoded_data, verdict, temp_file_path,
                   response, saves, files, cleanup_response>>

NextDetect == DetectCall

SpecDetect == InitDetect /\ [][NextDetect]_vars

(***************************************************************************)
(* Properties                                                               *)
(***************************************************************************)
\* the string that is to be base64: what follows the first comma of a
\* string that starts with "data:" and has one, else the whole string
PayloadOf(raw) ==
    IF StartsWith(raw, "data:") /\ Find(raw, ",") # 0
    THEN SubSeq(raw, Find(raw, ",") + 1, Len(raw)) ELSE raw

\* the request carries valid base64 of at least one byte
ValidRequest(raw) ==
    /\ b64decode(PayloadOf(raw), TRUE).ok
    /\ Len(b64decode(PayloadOf(raw), TRUE).bytes) > 0

\* the string has the form data:<mime>;base64,<payload>
HasDataUrlForm(raw) ==
    LET header == SubSeq(raw, 1, Find(raw, ",") - 1) IN
    /\ StartsWith(raw, "data:")
    /\ Find(raw, ",") # 0
    /\ Len(header) >= 12
    /\ SubSeq(header, Len(header) - 6, Len(header)) = ";base64"

\* the <mime> of such a string, and the extension it implies
DeclaredType(raw) ==
    LET mime == SubSeq(raw, 6, Find(raw, ",") - 8) IN
    Pair(mime, IF Find(mime, "/") # 0
               THEN SubSeq(mime, RFind(mime, "/") + 1, Len(mime)) ELSE "bin")

\* the call has run type detection
Sniffed == pc \in {"classify", "save", "respond"}
           \/ (pc = "done" /\ detected # NoType)

\* C1: a call that answers with a verdict answers "accepted" exactly when
\* the detected MIME type is a key of the acceptance table; an accepted
\* verdict carries the score and reason of that table entry, a rejected
\* one carries 0.3 and "File type '<mime>' not in accepted list -
\* Rejected"; the score lies in [0,1].
C1_VerdictFollowsTable ==
    response.code = 200 =>
        LET body == response.body[1]
            mime == detected.mime
        IN  /\ body.status \in {"accepted", "rejected"}
            /\ body.status = "accepted" <=> mime \in DOMAIN accepted_types
            /\ mime \in DOMAIN accepted_types =>
                   /\ body.confidence_score = accepted_types[mime].confidence_score
                   /\ body.reason = accepted_types[mime].reason
            /\ mime \notin DOMAIN accepted_types =>
                   /\ body.confidence_score = 30
                   /\ body.reason = "File type '" \o mime
                                    \o "' not in accepted list - Rejected"
            /\ body.confidence_score \in 0..100

C1_Witness ==
    /\ response.code = 200
    /\ response.body[1].status = "rejected"
    /\ detected.mime = "application/x-httpd-php"

\* C2: detect_file_type returns, for every input string, a pair whose MIME
\* string and extension are both non-empty.
C2_DetectNonEmpty ==
    pc = "returned" => detected.mime # "" /\ detected.ext # ""

\* C3: when the request string has the form data:<mime>;base64,<payload>,
\* the type process_document detects is the declared <mime>, with the
\* extension that follows its '/' (or "bin").
C3_DeclaredTypeWins ==
    Sniffed /\ HasDataUrlForm(request.base64_data) =>
        detected = DeclaredType(request.base64_data)

\* C4: a request whose base64_data is not valid base64 (a "data:" string
\* without a comma included) or decodes to no bytes ends in HTTP 400,
\* and neither detect_file_type nor save_temp_file runs for it.
C4_InvalidInputIs400 ==
    pc = "done" /\ ~ValidRequest(request.base64_data) =>
        /\ response.code = 400
        /\ \A i \in DOMAIN calls :
               calls[i] \notin {"detect_file_type", "save_temp_file"}

\* C5: a request that passes validation has save_temp_file invoked exactly
\* once, after the verdict is determined and before the response exists,
\* with the decoded bytes and the detected extension, whether the verdict
\* is accepted or rejected.
C5_SavedOnceBeforeResponse ==
    /\ pc \in {"validate", "detect", "classify", "save"} =>
           saves = <<>> /\ response = NoResponse
    /\ pc = "respond" => Len(saves) = 1 /\ response = NoResponse
    /\ pc = "done" /\ ValidRequest(request.base64_data) => Len(saves) = 1
    /\ response.code = 200 => Len(saves) = 1
    /\ \A i \in DOMAIN saves :
           /\ saves[i].decoded_data = b64decode(PayloadOf(request.base64_data), TRUE).bytes
           /\ saves[i].file_extension = detected.ext
           /\ saves[i].verdict = verdict
           /\ saves[i].verdict.status \in {"accepted", "rejected"}

C5_Witness ==
    /\ pc = "done"
    /\ response.code = 200
    /\ response.body[1].status = "rejected"
    /\ Len(saves) = 1
    /\ saves[1].file_extension = "bin"

\* the decision list of C6, written out
C6_Decision(b) ==
    LET text == Utf8Ignore(SubSeq(b, 1, Min(100, Len(b)))) IN
    IF StartsWith(b, <<137, 80, 78, 71, 13, 10, 26, 10>>) THEN Pair("image/png", "png")
    ELSE IF StartsWith(b, <<255, 216, 255>>) THEN Pair("image/jpeg", "jpg")
    ELSE IF StartsWith(b, <<71, 73, 70, 56, 55, 97>>) THEN Pair("image/gif", "gif")
    ELSE IF StartsWith(b, <<71, 73, 70, 56, 57, 97>>) THEN Pair("image/gif", "gif")
    ELSE IF StartsWith(b, <<37, 80, 68, 70>>) THEN Pair("application/pdf", "pdf")
    ELSE IF \/ StartsWith(b, <<80, 75, 3, 4>>)
            \/ StartsWith(b, <<80, 75, 5, 6>>)
            \/ StartsWith(b, <<80, 75, 7, 8>>) THEN Pair(DocxMime, "docx")
    ELSE IF Len(b) < 4 THEN Pair("application/octet-stream", "bin")
    ELSE IF StartsWith(text, <<60, 63, 120, 109, 108>>) THEN Pair("application/xml", "xml")
    ELSE IF StartsWith(text, <<123>>) THEN Pair("application/json", "json")
    ELSE IF StartsWith(text, <<91>>) THEN Pair("application/json", "json")
    ELSE IF StartsWith(text, <<60, 104, 116, 109, 108>>) THEN Pair("text/html", "html")
    ELSE IF StartsWith(text, <<60, 33, 68, 79, 67, 84, 89, 80, 69>>)
    THEN Pair("text/html", "html")
    ELSE IF StartsWith(text, <<60, 63, 112, 104, 112>>)
    THEN Pair("application/x-httpd-php", "php")
    ELSE IF StartsWith(text, <<35, 33, 47>>) THEN Pair("text/plain", "txt")
    ELSE Pair("application/octet-stream", "bin")

\* C6: for a string without a data-URL prefix, detect_file_type returns
\* what the ordered first-match list gives for the decoded bytes: the
\* first signature they start with; else, for four bytes or more, the
\* first text prefix of their first 100 bytes (read as permissive UTF-8)
\* in the order <?xml, { or [, <html or <!DOCTYPE, <?php, #!/; else
\* application/octet-stream, which is also the result when nothing decodes.
C6_FirstMatchDecisionList ==
    pc = "returned" /\ ~StartsWith(request.base64_data, "data:") =>
        detected = IF b64decode(request.base64_data, FALSE).ok
                   THEN C6_Decision(b64decode(request.base64_data, FALSE).bytes)
                   ELSE Pair("application/octet-stream", "bin")

C6_Witness ==
    /\ pc = "returned"
    /\ ~StartsWith(request.base64_data, "data:")
    /\ StartsWith(b64decode(request.base64_data, FALSE).bytes, <<128, 123>>)
    /\ detected.mime = "application/json"

\* the buffer starts with one of the three ZIP-family signatures
ZipLead(b) ==
    \/ StartsWith(b, <<80, 75, 3, 4>>)
    \/ StartsWith(b, <<80, 75, 5, 6>>)
    \/ StartsWith(b, <<80, 75, 7, 8>>)

\* C7: a buffer that starts with PK\x03\x04, PK\x05\x06 or PK\x07\x08 is
\* detected as the wordprocessing type with extension docx, never as
\* application/zip, and its verdict is accepted with confidence 0.90.
C7_ZipFamilyIsDocx ==
    Sniffed /\ ZipLead(decoded_data) =>
        /\ detected = Pair(DocxMime, "docx")
        /\ verdict # NoVerdict =>
               verdict.status = "accepted" /\ verdict.confidence_score = 90
        /\ response.code = 200 =>
               /\ response.body[1].status = "accepted"
               /\ response.body[1].confidence_score = 90

C7_Witness ==
    /\ response.code = 200
    /\ StartsWith(decoded_data, <<80, 75, 5, 6>>)
    /\ response.body[1].reason = "DOCX document - Accepted"

\* C8: when save_temp_file raises, the call ends in HTTP 500 without a
\* verdict in the answer although the verdict had been computed; a call
\* that validation refused ends in HTTP 400, never 500.
C8_ErrorKinds ==
    pc = "done" =>
        /\ saves # <<>> /\ temp_file_path = "" =>
               /\ response.code = 500
               /\ response.body = <<>>
               /\ verdict.status \in {"accepted", "rejected"}
        /\ calls = <<"b64decode">> =>
               /\ response.code = 400
               /\ response.detail \in {"Invalid base64 data", "Empty file data"}

C8_Witness ==
    /\ pc = "done"
    /\ saves # <<>>
    /\ temp_file_path = ""
    /\ response.code = 500
    /\ verdict.status = "accepted"

\* the MIME types process_document can detect
ReachableMimes ==
    {"image/png", "image/jpeg", "image/gif", "application/pdf", DocxMime,
     "application/xml", "application/json", "text/html",
     "application/x-httpd-php", "text/plain", "application/octet-stream"}

\* C9: in a call that reaches classification the detected MIME type is one
\* of eleven values; no verdict comes from the table entries for msword,
\* xlsx, xls, pptx, ppt or csv, and only application/x-httpd-php and
\* application/octet-stream are rejected.
C9_ElevenDetectableTypes ==
    Sniffed =>
        /\ detected.mime \in ReachableMimes
        /\ verdict.status = "accepted" =>
               detected.mime \in ReachableMimes \cap DOMAIN accepted_types
        /\ verdict.status = "rejected" =>
               detected.mime \in {"application/x-httpd-php", "application/octet-stream"}

C9_Witness ==
    /\ response.code = 200
    /\ StartsWith(request.base64_data, "data:text/csv;base64,")
    /\ detected.mime = "application/pdf"

\* C10: a cleanup call whose path does not exist, or whose directory is not
\* <cwd>/temp_files, deletes nothing and answers HTTP 404 "File not found
\* or invalid path".
C10_MissingPathIs404 ==
    [][\A file_path \in CleanupPaths :
          /\ cleanup_temp_file(file_path)
          /\ ~(AbsPath(file_path) \in files /\ dirname(file_path) = temp_dir)
          => /\ files' = files
             /\ cleanup_response'.code = 404
             /\ cleanup_response'.detail = "File not found or invalid path"]_vars

====
